---------------------------- MODULE Spec2Model ----------------------------
(***************************************************************************)
(* State-machine model of src/src/main.rs: the world model (GameState),    *)
(* the move generator (get_possible_moves), the forward simulator          *)
(* (apply_moves), the evaluator (evaluate) and the search (minimax,        *)
(* find_best_move).                                                        *)
(*                                                                         *)
(* Numbers.  Positions, radii, speeds, scores and battery are the source's *)
(* integers.  The f64 computations are modelled in exact integer           *)
(* arithmetic:                                                             *)
(*   - distance <= R   is   dx*dx + dy*dy <= R*R  (R an integer);          *)
(*   - (normalized * MOVE_SPEED) as i32 is the truncation toward zero of   *)
(*     600*d/sqrt(dx^2+dy^2), and 0 for the NaN of a zero vector;          *)
(*   - an evaluation is a pair <<q, r>> standing for q*100000 + r with     *)
(*     0 <= r < 100000, so that values beyond 32 bits are representable;   *)
(*   - the distance and logarithm of evaluate are rounded down to          *)
(*     integers (IntSqrt, Log2Scaled).                                     *)
(* Option<i32> is a "known" flag beside the value.                         *)
(***************************************************************************)
EXTENDS Integers, Sequences, FiniteSets, TLC

\* ---------------------------------------------------------------- constants
MOVE_SPEED == 600
SINK_SPEED == 300
LIGHT_BASE_RADIUS == 800
LIGHT_POWER_RADIUS == 2000
MIN_BATTERY == 0
MAX_BATTERY == 30
LIGHT_COST == 5
LIGHT_GAIN == 1
ARENA_MAX == 10000
SCORE_WEIGHT == 100000
FLAG_BONUS == 500
ALL_COLORS_BONUS == 3
ONE_OF_EACH_BONUS == 4
SEARCH_DEPTH == 3

\* ---------------------------------------------------------------- arithmetic
Abs(n) == IF n < 0 THEN -n ELSE n

Sign(n) == IF n < 0 THEN -1 ELSE IF n > 0 THEN 1 ELSE 0

Min2(a, b) == IF a <= b THEN a ELSE b

Max2(a, b) == IF a >= b THEN a ELSE b

\* The limbs (base 1000) of the product a*b of two naturals, most significant
\* first; a product of two 6-digit numbers does not fit TLC's 32-bit integers.
Limbs(a, b) ==
    LET a1 == a \div 1000  a0 == a % 1000
        b1 == b \div 1000  b0 == b % 1000
        lo == a0 * b0
        mid == a1 * b0 + a0 * b1 + (lo \div 1000)
        hi == a1 * b1 + (mid \div 1000)
    IN  <<hi, mid % 1000, lo % 1000>>

\* a*b <= c*d over the naturals.
MulLeq(a, b, c, d) ==
    LET p == Limbs(a, b)
        q == Limbs(c, d)
    IN  \/ p[1] < q[1]
        \/ p[1] = q[1] /\ p[2] < q[2]
        \/ p[1] = q[1] /\ p[2] = q[2] /\ p[3] <= q[3]

\* The largest k in lo..hi with k*k*n <= a*a (lo satisfies it).
RECURSIVE TruncSearch(_, _, _, _)
TruncSearch(lo, hi, a, n) ==
    IF lo >= hi THEN lo
    ELSE LET mid == (lo + hi + 1) \div 2
         IN  IF MulLeq(mid * mid, n, a, a)
             THEN TruncSearch(mid, hi, a, n)
             ELSE TruncSearch(lo, mid - 1, a, n)

\* floor(sqrt(n)) by bisection, n < 2^31.
RECURSIVE SqrtSearch(_, _, _)
SqrtSearch(lo, hi, n) ==
    IF lo >= hi THEN lo
    ELSE LET mid == (lo + hi + 1) \div 2
         IN  IF mid * mid <= n
             THEN SqrtSearch(mid, hi, n)
             ELSE SqrtSearch(lo, mid - 1, n)

IntSqrt(n) == SqrtSearch(0, 46340, n)

\* normalize_vector followed by "* MOVE_SPEED) as i32": the displacement along
\* one axis, d the component on that axis and e the other component.  A zero
\* vector normalizes to NaN, and NaN as i32 is 0.
StepToward(d, e) ==
    IF d = 0 /\ e = 0 THEN 0
    ELSE Sign(d) * TruncSearch(0, MOVE_SPEED, MOVE_SPEED * Abs(d), d * d + e * e)

\* ---------------------------------------------------------------- world model
\* format!("{}", n): the decimal digits of an i32, with its sign.
DigitChar == <<"0", "1", "2", "3", "4", "5", "6", "7", "8", "9">>

RECURSIVE NatDigits(_)
NatDigits(n) ==
    IF n < 10 THEN <<DigitChar[n + 1]>>
    ELSE NatDigits(n \div 10) \o <<DigitChar[(n % 10) + 1]>>

IntDigits(n) == IF n < 0 THEN <<"-">> \o NatDigits(-n) ELSE NatDigits(n)

\* format!("{}:{}", drone_id, creature_id): the key of a scan record.
ScanKey(drone_id, creature_id) ==
    IntDigits(drone_id) \o <<":">> \o IntDigits(creature_id)

\* Creature::get_score
get_score(creature) ==
    IF creature.type = 0 THEN 1
    ELSE IF creature.type = 1 THEN 2
    ELSE IF creature.type = 2 THEN 3
    ELSE 0

\* The square of Drone::distance_from, to a creature of known position.
DistSq(drone, creature) ==
    (drone.x - creature.x) * (drone.x - creature.x)
        + (drone.y - creature.y) * (drone.y - creature.y)

\* Drone::is_near_creature (the creature's position is known)
is_near_creature(drone, creature) ==
    DistSq(drone, creature) <= LIGHT_BASE_RADIUS * LIGHT_BASE_RADIUS

\* Drone::is_near_creature_with_power (the creature's position is known)
is_near_creature_with_power(drone, creature) ==
    DistSq(drone, creature) <= LIGHT_POWER_RADIUS * LIGHT_POWER_RADIUS

\* The ids of the creatures map.
CreatureIds(s) == DOMAIN s.creatures

\* GameState::has_scanned_all_creatures_of_color_for.  The loop's early return
\* does not change the result: the three marks only ever go from false to true.
has_scanned_all_creatures_of_color_for(s, color, drone_id) ==
    \A t \in {0, 1, 2} :
        \E c \in CreatureIds(s) :
            /\ s.creatures[c].color = color
            /\ s.creatures[c].type = t
            /\ ScanKey(drone_id, c) \in s.scans

\* GameState::has_scanned_one_of_each_for
has_scanned_one_of_each_for(s, type, drone_id) ==
    \A col \in {0, 1, 2, 3} :
        \E c \in CreatureIds(s) :
            /\ s.creatures[c].type = type
            /\ s.creatures[c].color = col
            /\ ScanKey(drone_id, c) \in s.scans

\* ---------------------------------------------------------------- move generator
\* A Move; x and y are None (has_target FALSE) for a wait.
MoveTo(x, y, light) ==
    [should_move |-> TRUE, has_target |-> TRUE, x |-> x, y |-> y, light |-> light]

WaitMove(light) ==
    [should_move |-> FALSE, has_target |-> FALSE, x |-> 0, y |-> 0, light |-> light]

\* A variant that keeps the target where the offset puts it.
Clamp_Open(v) == v

\* i32::max(0, i32::min(10000, v)).
Clamp(v) == Max2(0, Min2(ARENA_MAX, v))

\* GameState::get_possible_moves: always from my drone's position.
get_possible_moves(s) ==
    LET d == s.my_drone
        directions == << <<d.x + MOVE_SPEED, d.y + MOVE_SPEED>>,
                         <<d.x - MOVE_SPEED, d.y - MOVE_SPEED>>,
                         <<d.x + MOVE_SPEED, d.y - MOVE_SPEED>>,
                         <<d.x - MOVE_SPEED, d.y + MOVE_SPEED>> >>
        light_values == <<TRUE, FALSE>>
    IN  [i \in 1..8 |->
            MoveTo(Clamp(directions[(i + 1) \div 2][1]),
                   Clamp(directions[(i + 1) \div 2][2]),
                   light_values[2 - (i % 2)])]
        \o [i \in 1..2 |-> WaitMove(light_values[i])]

\* ---------------------------------------------------------------- forward simulator
\* apply_moves, first loop: every creature of known position advances by its
\* velocity; Option::map leaves an unknown position unknown.
AdvanceCreatures(creatures) ==
    [c \in DOMAIN creatures |->
        IF creatures[c].known
        THEN [creatures[c] EXCEPT !.x = @ + creatures[c].vx,
                                  !.y = @ + creatures[c].vy]
        ELSE creatures[c]]

\* A variant in which a move covers twice the step.
MoveDrone_Twice(drone, m) ==
    IF m.should_move
    THEN [drone EXCEPT !.x = @ + 2 * StepToward(m.x - drone.x, m.y - drone.y),
                       !.y = @ + 2 * StepToward(m.y - drone.y, m.x - drone.x)]
    ELSE [drone EXCEPT !.y = @ + SINK_SPEED]

\* apply_moves, the drone's motion: toward the target at MOVE_SPEED, or down by
\* SINK_SPEED for a wait.
MoveDrone(drone, m) ==
    IF m.should_move
    THEN [drone EXCEPT !.x = @ + StepToward(m.x - drone.x, m.y - drone.y),
                       !.y = @ + StepToward(m.y - drone.y, m.x - drone.x)]
    ELSE [drone EXCEPT !.y = @ + SINK_SPEED]

\* apply_moves, the battery.
UpdateBattery(drone, m) ==
    [drone EXCEPT !.battery = IF m.light
                              THEN Max2(MIN_BATTERY, @ - LIGHT_COST)
                              ELSE Min2(MAX_BATTERY, @ + LIGHT_GAIN)]

\* A variant in which the light works only while the battery is not empty.
IsScannedNow_NeedsBattery(s, m, c) ==
    /\ \/ is_near_creature(s.my_drone, s.creatures[c])
       \/ /\ is_near_creature_with_power(s.my_drone, s.creatures[c])
          /\ m.light
          /\ s.my_drone.battery > 0
    /\ ScanKey(s.my_drone.id, c) \notin s.scans

\* A variant that takes the powered radius whether or not the light is on.
IsScannedNow_AnyLight(s, m, c) ==
    /\ is_near_creature_with_power(s.my_drone, s.creatures[c])
    /\ ScanKey(s.my_drone.id, c) \notin s.scans

\* apply_moves, the condition under which a creature is pushed on
\* scanned_creature_ids (s holds the advanced creatures and the moved drone).
IsScannedNow(s, m, c) ==
    /\ \/ is_near_creature(s.my_drone, s.creatures[c])
       \/ is_near_creature_with_power(s.my_drone, s.creatures[c]) /\ m.light
    /\ ScanKey(s.my_drone.id, c) \notin s.scans

\* apply_moves, scanned_creature_ids: in the iteration order of the creatures map.
DetectScans(s, m, order) == SelectSeq(order, LAMBDA c : IsScannedNow(s, m, c))

\* The first-of-type branch chain of apply_moves: TRUE when one of the three
\* branches is taken (flag set, creature_score doubled).
TypeFirst(s, creature) ==
    \/ creature.type = 0 /\ ~s.was_type_0_achieved
    \/ creature.type = 1 /\ ~s.was_type_1_achieved
    \/ creature.type = 2 /\ ~s.was_type_2_achieved

\* The world state after the first-of-type branch chain.
MarkType(s, creature) ==
    IF creature.type = 0 /\ ~s.was_type_0_achieved
    THEN [s EXCEPT !.was_type_0_achieved = TRUE]
    ELSE IF creature.type = 1 /\ ~s.was_type_1_achieved
    THEN [s EXCEPT !.was_type_1_achieved = TRUE]
    ELSE IF creature.type = 2 /\ ~s.was_type_2_achieved
    THEN [s EXCEPT !.was_type_2_achieved = TRUE]
    ELSE s

\* A variant that leaves the all-of-a-color flag as it was.
MarkAllColors_Unset(s) == s

\* The all-of-a-color flag after one scanned creature: set whenever it was not
\* set, whether or not a color was completed.
MarkAllColors(s) == [s EXCEPT !.was_all_colors_achieved = TRUE]

\* The one-of-each flag after one scanned creature: set whenever it was not set.
MarkOneOfEach(s) == [s EXCEPT !.was_1_of_each_achieved = TRUE]

\* A variant that keeps the new scan record only.
InsertScan_Replace(scans, drone_id, creature_id) == {ScanKey(drone_id, creature_id)}

\* The insertion of one scan record.
InsertScan(scans, drone_id, creature_id) == scans \cup {ScanKey(drone_id, creature_id)}

\* A variant that credits the side the drone does not belong to.
Credit_OtherSide(s, drone, score) ==
    IF drone.is_mine
    THEN [s EXCEPT !.foe_scan_count = @ + 1, !.foe_score = @ + score]
    ELSE [s EXCEPT !.my_scan_count = @ + 1, !.my_score = @ + score]

\* The credit of one scanned creature to the side of the drone's ownership flag.
Credit(s, drone, score) ==
    IF drone.is_mine
    THEN [s EXCEPT !.my_scan_count = @ + 1, !.my_score = @ + score]
    ELSE [s EXCEPT !.foe_scan_count = @ + 1, !.foe_score = @ + score]

\* apply_moves, the body of the scoring loop for one scanned creature: the
\* successor world state and a record of what was added.
ScoreScan(s, drone_id, creature_id) ==
    LET creature == s.creatures[creature_id]
        drone == s.my_drone
        s1 == [s EXCEPT !.scans = InsertScan(@, drone_id, creature_id)]
        type_first == TypeFirst(s1, creature)
        creature_score == IF type_first THEN get_score(creature) * 2
                          ELSE get_score(creature)
        s2 == MarkType(s1, creature)
        colors_base == IF has_scanned_all_creatures_of_color_for(s2, creature.color, drone_id)
                       THEN ALL_COLORS_BONUS ELSE 0
        colors_first == ~s2.was_all_colors_achieved
        all_colors_score == IF colors_first THEN colors_base * 2 ELSE colors_base
        s3 == IF colors_first THEN MarkAllColors(s2) ELSE s2
        each_base == IF has_scanned_one_of_each_for(s3, creature.type, drone_id)
                     THEN ONE_OF_EACH_BONUS ELSE 0
        each_first == ~s3.was_1_of_each_achieved
        one_of_each_score == IF each_first THEN each_base * 2 ELSE each_base
        s4 == IF each_first THEN MarkOneOfEach(s3) ELSE s3
        score == creature_score + all_colors_score + one_of_each_score
    IN  [st |-> Credit(s4, drone, score),
         ev |-> [creature |-> creature_id,
                 drone |-> drone_id,
                 mine |-> drone.is_mine,
                 creature_score |-> creature_score,
                 type_doubled |-> type_first,
                 all_colors_score |-> all_colors_score,
                 colors_doubled |-> colors_first,
                 one_of_each_score |-> one_of_each_score,
                 each_doubled |-> each_first,
                 score |-> score]]

\* apply_moves, the scoring loop over scanned_creature_ids.
RECURSIVE ScoreAll(_, _, _)
ScoreAll(s, drone_id, ids) ==
    IF ids = << >> THEN [st |-> s, events |-> << >>]
    ELSE LET one == ScoreScan(s, drone_id, Head(ids))
             rest == ScoreAll(one.st, drone_id, Tail(ids))
         IN  [st |-> rest.st, events |-> <<one.ev>> \o rest.events]

\* The unwrap of a creature's position in is_near_creature panics when the
\* position is None; apply_moves calls it for every creature of the map.
ApplyPanics(s) == \E c \in CreatureIds(s) : ~s.creatures[c].known

\* GameState::apply_moves on world state s with the creatures map iterated in
\* `order`: the successor state, the scans made, and whether the call panicked
\* (the state is then the one reached before the scan loop).
apply_moves(s, m, order) ==
    LET s1 == [s EXCEPT !.creatures = AdvanceCreatures(@)]
        s2 == [s1 EXCEPT !.my_drone = UpdateBattery(MoveDrone(@, m), m)]
    IN  IF ApplyPanics(s2)
        THEN [st |-> s2, events |-> << >>, panicked |-> TRUE]
        ELSE LET r == ScoreAll(s2, s2.my_drone.id, DetectScans(s2, m, order))
             IN  [st |-> r.st, events |-> r.events, panicked |-> FALSE]

\* ---------------------------------------------------------------- evaluator
\* An f64 score v is the pair <<q, r>> with v = q * SCORE_WEIGHT + r and
\* 0 <= r < SCORE_WEIGHT.
Val(q, rest) == <<q + (rest \div SCORE_WEIGHT), rest % SCORE_WEIGHT>>

VLeq(a, b) == a[1] < b[1] \/ (a[1] = b[1] /\ a[2] <= b[2])

VLt(a, b) == ~VLeq(b, a)

\* f64::max and f64::min (no NaN arises from known positions).
VMax(a, b) == IF VLeq(a, b) THEN b ELSE a

VMin(a, b) == IF VLeq(a, b) THEN a ELSE b

\* i32::min_value() as f64 = -2147483648 and i32::max_value() as f64 = 2147483647.
I32_MIN_F == <<-21475, 16352>>

I32_MAX_F == <<21474, 83647>>

\* The largest k with 2^k <= v, for v >= 1.
RECURSIVE Log2Floor(_)
Log2Floor(v) == IF v < 2 THEN 0 ELSE 1 + Log2Floor(v \div 2)

RECURSIVE Pow2(_)
Pow2(k) == IF k = 0 THEN 1 ELSE 2 * Pow2(k - 1)

\* 21310 * log2(v) rounded down, log2 interpolated linearly between powers of
\* two; 21310 = 1500 / log2(1.05), so this is 1500 * log_1.05(v).
Log2Scaled(v) ==
    LET k == Log2Floor(v)
    IN  21310 * k + ((21310 * (v - Pow2(k))) \div Pow2(k))

\* emphasize_value(x) = 1500 * log_1.05(x + 1) - 1500, x >= 0 an integer.
emphasize_value(x) == Log2Scaled(x + 1) - 1500

\* evaluate, one fold: the distances from a drone to the creatures it has not
\* scanned, summed and divided by the number of creatures.
AvgDistance(s, drone) ==
    LET RECURSIVE Sum(_)
        Sum(ids) ==
            IF ids = {} THEN 0
            ELSE LET c == CHOOSE x \in ids : TRUE
                 IN  (IF ScanKey(drone.id, c) \in s.scans THEN 0
                      ELSE IntSqrt(DistSq(drone, s.creatures[c])))
                     + Sum(ids \ {c})
    IN  Sum(CreatureIds(s)) \div Cardinality(CreatureIds(s))

\* evaluate unwraps the position of every creature a drone has not scanned.
EvaluatePanics(s) ==
    \E c \in CreatureIds(s) :
        /\ ~s.creatures[c].known
        /\ \/ ScanKey(s.my_drone.id, c) \notin s.scans
           \/ ScanKey(s.their_drone.id, c) \notin s.scans

\* GameState::evaluate
evaluate(s) ==
    Val(s.my_score - s.foe_score,
        (IF s.was_all_colors_achieved THEN FLAG_BONUS ELSE 0)
        + (IF s.was_1_of_each_achieved THEN FLAG_BONUS ELSE 0)
        - emphasize_value(AvgDistance(s, s.my_drone))
        + emphasize_value(AvgDistance(s, s.their_drone)))

\* ---------------------------------------------------------------- world state
\* An absent drone (the drone maps are empty until the first snapshot).
NoDrone(is_mine) ==
    [present |-> FALSE, id |-> 0, x |-> 0, y |-> 0, emergency |-> 0,
     battery |-> 0, is_mine |-> is_mine]

\* GameState::new: the roster with unknown positions, zero scores, no scans,
\* no drones, the five flags false.
new_state(roster) ==
    [was_type_0_achieved |-> FALSE,
     was_type_1_achieved |-> FALSE,
     was_type_2_achieved |-> FALSE,
     was_1_of_each_achieved |-> FALSE,
     was_all_colors_achieved |-> FALSE,
     my_score |-> 0,
     foe_score |-> 0,
     my_scan_count |-> 0,
     foe_scan_count |-> 0,
     creatures |-> [c \in DOMAIN roster |->
                      [id |-> c, color |-> roster[c].color, type |-> roster[c].type,
                       known |-> FALSE, x |-> 0, y |-> 0, vx |-> 0, vy |-> 0]],
     my_drone |-> NoDrone(TRUE),
     their_drone |-> NoDrone(FALSE),
     scans |-> {}]

\* The scan records update_state inserts for one side's list of creature ids.
SnapshotScans(scans, drone, ids) ==
    scans \cup {ScanKey(drone.id, ids[i]) : i \in DOMAIN ids}

\* update_state, the visible creatures: the listed ones get the reported
\* position and velocity, the others keep what they had.
OverlayVisible(creatures, visible) ==
    [c \in DOMAIN creatures |->
        IF c \in DOMAIN visible
        THEN [creatures[c] EXCEPT !.known = TRUE,
                                  !.x = visible[c].x, !.y = visible[c].y,
                                  !.vx = visible[c].vx, !.vy = visible[c].vy]
        ELSE creatures[c]]

\* update_state reads the drone id of a side's scans from the drone map before
\* this snapshot's drones are inserted: it panics on a non-empty scan list while
\* the map is still empty.
UpdatePanics(s, snap) ==
    \/ snap.my_scans # << >> /\ ~s.my_drone.present
    \/ snap.foe_scans # << >> /\ ~s.their_drone.present

\* GameState::update_state: one turn snapshot absorbed (no panic).  The five
\* flags are not touched.
update_state(s, snap) ==
    [s EXCEPT !.my_score = snap.my_score,
              !.foe_score = snap.foe_score,
              !.my_scan_count = Len(snap.my_scans),
              !.foe_scan_count = Len(snap.foe_scans),
              !.scans = SnapshotScans(SnapshotScans(@, s.my_drone, snap.my_scans),
                                      s.their_drone, snap.foe_scans),
              !.my_drone = [snap.my_drone EXCEPT !.present = TRUE, !.is_mine = TRUE],
              !.their_drone = [snap.foe_drone EXCEPT !.present = TRUE, !.is_mine = FALSE],
              !.creatures = OverlayVisible(@, snap.visible)]

\* ---------------------------------------------------------------- bounded inputs
\* The number of moves applied along one simulated branch.
MaxPlies == 3

\* The creature roster read by GameState::new: id -> color and type.  Creatures
\* 1..6 are fish of the game (colors 0..3, types 0..2); creature 7 has a type
\* outside 0..2.
Roster ==
    (1 :> [color |-> 0, type |-> 0]) @@ (2 :> [color |-> 0, type |-> 1]) @@
    (3 :> [color |-> 0, type |-> 2]) @@ (4 :> [color |-> 1, type |-> 0]) @@
    (5 :> [color |-> 2, type |-> 0]) @@ (6 :> [color |-> 3, type |-> 0]) @@
    (7 :> [color |-> 0, type |-> 3])

\* The visible creatures of a snapshot: id -> position and velocity.
Visible ==
    (1 :> [x |-> 6500, y |-> 5300, vx |-> 0, vy |-> 0]) @@
    (2 :> [x |-> 5000, y |-> 5600, vx |-> 0, vy |-> 0]) @@
    (3 :> [x |-> 5000, y |-> 7500, vx |-> 0, vy |-> 0]) @@
    (4 :> [x |-> 3300, y |-> 5000, vx |-> 100, vy |-> 0]) @@
    (5 :> [x |-> 9000, y |-> 9000, vx |-> 0, vy |-> 0]) @@
    (6 :> [x |-> 1000, y |-> 1000, vx |-> 0, vy |-> 0]) @@
    (7 :> [x |-> 5000, y |-> 3600, vx |-> 0, vy |-> 100])

\* The drones of a snapshot.
DroneAt(id, x, y, battery) ==
    [present |-> TRUE, id |-> id, x |-> x, y |-> y, emergency |-> 0,
     battery |-> battery, is_mine |-> FALSE]

MyDroneStarts == {DroneAt(0, 5000, 5000, 30), DroneAt(0, 0, 0, 2)}

FoeDroneStart == DroneAt(1, 8000, 2000, 30)

\* The scan lists of a snapshot: my drone's and the opponent drone's.
ScanLists ==
    { [mine |-> << >>, foe |-> << >>],
      [mine |-> <<1, 2>>, foe |-> << >>],
      [mine |-> <<4, 5, 6>>, foe |-> << >>],
      [mine |-> <<1, 2, 3>>, foe |-> <<4>>],
      [mine |-> << >>, foe |-> <<1, 6>>] }

\* The iteration orders of the creatures map taken into account.
Ascending == [i \in 1..Cardinality(DOMAIN Roster) |-> i]

Descending == [i \in 1..Cardinality(DOMAIN Roster) |-> Cardinality(DOMAIN Roster) + 1 - i]

IterationOrders == {Ascending, Descending}

Snapshot(scores, lists, drone) ==
    [my_score |-> scores[1], foe_score |-> scores[2],
     my_scans |-> lists.mine, foe_scans |-> lists.foe,
     my_drone |-> drone, foe_drone |-> FoeDroneStart,
     visible |-> Visible]

\* The world state after GameState::new and two snapshots: the first turn's,
\* with no scans yet, and a later turn's.
WorldAfter(scores, lists, drone) ==
    update_state(update_state(new_state(Roster), Snapshot(<<0, 0>>, [mine |-> << >>, foe |-> << >>], drone)),
                 Snapshot(scores, lists, drone))

\* ---------------------------------------------------------------- one simulated branch
\* state ... failed: one branch (a world state owned by the branch, and what
\* was applied to it).  call ... result: one run of the search: the states
\* owned by the live calls (heap), the live calls (stack), where the run is
\* (pc), what it returned (result) and the score the root saw for each of its
\* candidates (seen).  snapshot, emitted: the input and output of main: the
\* turn snapshot absorbed last, and the line printed last.
VARIABLES state, order, plies, last, log, failed, call, heap, stack, pc, result,
          seen, snapshot, emitted

simvars == <<state, order, plies, last, log, failed>>

searchvars == <<call, heap, stack, pc, result, seen>>

iovars == <<snapshot, emitted>>

vars == <<state, order, plies, last, log, failed, call, heap, stack, pc, result,
          seen, snapshot, emitted>>

\* Nothing read yet, nothing printed yet.
NoSnapshot == [read |-> FALSE, turn |-> 0]

NoLine == [cmd |-> "", x |-> 0, y |-> 0, light |-> ""]

NoCall == [kind |-> "none", depth |-> 0, maximizing_player |-> FALSE]

NoApplication(s) ==
    [applied |-> FALSE, move |-> WaitMove(FALSE), events |-> << >>, before |-> s]

InitSim ==
    /\ \E lists \in ScanLists, drone \in MyDroneStarts :
          state = WorldAfter(<<0, 0>>, lists, drone)
    /\ order \in IterationOrders
    /\ plies = 0
    /\ last = NoApplication(state)
    /\ log = << >>
    /\ failed = FALSE
    /\ call = NoCall
    /\ heap = << >>
    /\ stack = << >>
    /\ pc = "idle"
    /\ result = << >>
    /\ seen = << >>
    /\ snapshot = NoSnapshot
    /\ emitted = NoLine

\* new_state.apply_moves(m) for the i-th candidate of the branch's state.
ApplyMove(i) ==
    /\ plies < MaxPlies
    /\ ~failed
    /\ \E m \in {get_possible_moves(state)[i]} : \E r \in {apply_moves(state, m, order)} :
           /\ state' = r.st
           /\ failed' = r.panicked
           /\ last' = [applied |-> TRUE, move |-> m, events |-> r.events, before |-> state]
           /\ log' = log \o r.events
    /\ plies' = plies + 1
    /\ UNCHANGED order
    /\ UNCHANGED searchvars
    /\ UNCHANGED iovars

Next == \E i \in 1..10 : ApplyMove(i)

Spec == InitSim /\ [][Next]_vars

\* ---------------------------------------------------------------- the search
\* The score pairs of the snapshots the search is run from: level, and a
\* differential of 30000 points either way.
ScorePairs == {<<0, 0>>, <<30000, 0>>, <<0, 30000>>}

SearchScanLists ==
    { [mine |-> << >>, foe |-> << >>],
      [mine |-> <<1, 2>>, foe |-> << >>] }

\* The permutations of the ten root candidates taken into account for
\* moves.shuffle(&mut rng): positions kept, and positions reversed.
Shuffles == {[i \in 1..10 |-> i], [i \in 1..10 |-> 11 - i]}

Shuffled(moves, perm) == [i \in 1..10 |-> moves[perm[i]]]

\* A variant in which the callee works on the caller's own object.
CloneRef_Alias(src, fresh) == src

\* self.clone(): the slot that holds the state the callee owns.  The clone is
\* a fresh object (slot `fresh`), never the caller's (slot `src`).
CloneRef(src, fresh) == fresh

\* The heap with slot ref holding world state s.
Store(h, ref, s) ==
    IF ref = Len(h) + 1 THEN Append(h, s) ELSE [h EXCEPT ![ref] = s]

\* Option<Move>: None.
NoMove == [some |-> FALSE, move |-> WaitMove(FALSE)]

\* A call of minimax on the state in slot ref.  entry and via are records of
\* the call's start: the state it was called on, and the move that made it.
Frame(ref, depth, alpha, beta, maximizing_player, s, via) ==
    [kind |-> "minimax", ref |-> ref, depth |-> depth, alpha |-> alpha, beta |-> beta,
     maximizing_player |-> maximizing_player, idx |-> 1, entry |-> s, via |-> via,
     moves |-> << >>, best_score |-> I32_MIN_F, best_move |-> NoMove]

\* A call of find_best_move on the state in slot ref, with its shuffled
\* candidates, best_score = i32::min_value() as f64 and best_move = None.
\* Its candidates are my moves: it is a maximizing ply.
RootFrame(ref, s, perm) ==
    [kind |-> "find_best_move", ref |-> ref, depth |-> SEARCH_DEPTH + 1,
     alpha |-> I32_MIN_F, beta |-> I32_MAX_F,
     maximizing_player |-> TRUE, idx |-> 1, entry |-> s, via |-> WaitMove(FALSE),
     moves |-> Shuffled(get_possible_moves(s), perm),
     best_score |-> I32_MIN_F, best_move |-> NoMove]

InitSearch ==
    /\ \E scores \in ScorePairs, lists \in SearchScanLists, drone \in MyDroneStarts :
          state = WorldAfter(scores, lists, drone)
    /\ order \in IterationOrders
    /\ plies = 0
    /\ last = NoApplication(state)
    /\ log = << >>
    /\ failed = FALSE
    /\ \/ \E depth \in 0..SEARCH_DEPTH, maximizing_player \in BOOLEAN :
             /\ call = [kind |-> "minimax", depth |-> depth,
                        maximizing_player |-> maximizing_player]
             /\ stack = <<Frame(1, depth, I32_MIN_F, I32_MAX_F, maximizing_player,
                                state, WaitMove(FALSE))>>
       \/ /\ order = Ascending
          /\ state.scans = {}
          /\ call = [kind |-> "find_best_move", depth |-> SEARCH_DEPTH + 1,
                     maximizing_player |-> TRUE]
          /\ \E perm \in Shuffles : stack = <<RootFrame(1, state, perm)>>
    /\ heap = <<state>>
    /\ pc = "run"
    /\ result = << >>
    /\ seen = << >>
    /\ snapshot = NoSnapshot
    /\ emitted = NoLine

Top == stack[Len(stack)]

\* The loop of minimax after a child returned `score`: alpha or beta is
\* updated, and the loop breaks (idx past the last candidate) on beta <= alpha.
Absorb(f, score) ==
    LET alpha == IF f.maximizing_player THEN VMax(f.alpha, score) ELSE f.alpha
        beta == IF f.maximizing_player THEN f.beta ELSE VMin(f.beta, score)
    IN  [f EXCEPT !.alpha = alpha, !.beta = beta,
                  !.idx = IF VLeq(beta, alpha) THEN 11 ELSE f.idx + 1]

\* The loop of find_best_move after minimax returned `score` for candidate
\* idx: the candidate replaces the best one when its score is strictly higher.
AbsorbRoot(f, score) ==
    IF VLt(f.best_score, score)
    THEN [f EXCEPT !.best_score = score,
                   !.best_move = [some |-> TRUE, move |-> f.moves[f.idx]],
                   !.idx = f.idx + 1]
    ELSE [f EXCEPT !.idx = f.idx + 1]

\* The top call returns `score` to its caller.
ReturnValue(score) ==
    /\ seen' = IF Len(stack) > 1 /\ stack[Len(stack) - 1].kind = "find_best_move"
               THEN Append(seen, [move |-> Top.via, score |-> score])
               ELSE seen
    /\ IF Len(stack) = 1
       THEN /\ stack' = << >>
            /\ pc' = "done"
            /\ result' = score
       ELSE /\ stack' = [SubSeq(stack, 1, Len(stack) - 1)
                            EXCEPT ![Len(stack) - 1] =
                               IF @.kind = "find_best_move"
                               THEN AbsorbRoot(@, score) ELSE Absorb(@, score)]
            /\ pc' = pc
            /\ result' = result
    /\ heap' = SubSeq(heap, 1, Max2(1, Len(stack) - 1))

\* minimax at depth 0: the evaluation of self, which panics on the unwrap of
\* an unknown position.
EvalLeaf ==
    /\ pc = "run"
    /\ Top.kind = "minimax"
    /\ Top.depth = 0
    /\ IF EvaluatePanics(heap[Top.ref])
       THEN pc' = "panicked" /\ UNCHANGED <<heap, stack, result, seen>>
       ELSE ReturnValue(evaluate(heap[Top.ref]))
    /\ UNCHANGED <<simvars, call, iovars>>

\* minimax, one iteration of either loop: self is cloned, the candidate is
\* applied to the clone, and minimax is called on it one level down with the
\* other side to move.
Descend ==
    /\ pc = "run"
    /\ Top.kind = "minimax"
    /\ Top.depth > 0
    /\ Top.idx <= 10
    /\ \E m \in {get_possible_moves(heap[Top.ref])[Top.idx]} :
       \E ref \in {CloneRef(Top.ref, Len(stack) + 1)} :
       \E r \in {apply_moves(heap[Top.ref], m, order)} :
          /\ heap' = Store(heap, ref, r.st)
          /\ stack' = Append(stack, Frame(ref, Top.depth - 1, Top.alpha, Top.beta,
                                          ~Top.maximizing_player, r.st, m))
          /\ pc' = IF r.panicked THEN "panicked" ELSE pc
    /\ UNCHANGED <<simvars, call, result, seen, iovars>>

\* minimax, after the loop: alpha is returned by a maximizing call, beta by a
\* minimizing one.
Finish ==
    /\ pc = "run"
    /\ Top.kind = "minimax"
    /\ Top.depth > 0
    /\ Top.idx > 10
    /\ ReturnValue(IF Top.maximizing_player THEN Top.alpha ELSE Top.beta)
    /\ UNCHANGED <<simvars, call, iovars>>

\* find_best_move, one iteration: self is cloned, the candidate is applied to
\* the clone, and minimax(3, i32::MIN, i32::MAX, true) is called on it.
TryCandidate ==
    /\ pc = "run"
    /\ Top.kind = "find_best_move"
    /\ Top.idx <= 10
    /\ \E m \in {Top.moves[Top.idx]} :
       \E ref \in {CloneRef(Top.ref, Len(stack) + 1)} :
       \E r \in {apply_moves(heap[Top.ref], m, order)} :
          /\ heap' = Store(heap, ref, r.st)
          /\ stack' = Append(stack, Frame(ref, SEARCH_DEPTH, I32_MIN_F, I32_MAX_F,
                                          TRUE, r.st, m))
          /\ pc' = IF r.panicked THEN "panicked" ELSE pc
    /\ UNCHANGED <<simvars, call, result, seen, iovars>>

\* find_best_move, after the loop: best_move is returned.
FinishRoot ==
    /\ pc = "run"
    /\ Top.kind = "find_best_move"
    /\ Top.idx > 10
    /\ stack' = << >>
    /\ pc' = "done"
    /\ result' = Top.best_move
    /\ UNCHANGED <<simvars, call, heap, seen, iovars>>

\* main, the line printed for the action find_best_move returned: "WAIT 0" for
\* None, else MOVE x y light or WAIT light.
Line(m) ==
    IF ~m.some THEN [cmd |-> "WAIT", x |-> 0, y |-> 0, light |-> "0"]
    ELSE IF m.move.should_move
         THEN [cmd |-> "MOVE", x |-> m.move.x, y |-> m.move.y,
               light |-> IF m.move.light THEN "1" ELSE "0"]
         ELSE [cmd |-> "WAIT", x |-> 0, y |-> 0,
               light |-> IF m.move.light THEN "1" ELSE "0"]

\* main, after find_best_move returned: the line is printed.
PrintLine ==
    /\ pc = "done"
    /\ call.kind = "find_best_move"
    /\ emitted' = Line(result)
    /\ pc' = "printed"
    /\ UNCHANGED <<simvars, call, heap, stack, result, seen, snapshot>>

NextSearch == EvalLeaf \/ Descend \/ Finish \/ TryCandidate \/ FinishRoot \/ PrintLine

SearchSpec == InitSearch /\ [][NextSearch]_vars

\* ---------------------------------------------------------------- properties of one branch
\* The ids of the two drones of a world state.
DroneIds(s) == {s.my_drone.id, s.their_drone.id}

\* The scan records before the n+1-th scan of a move: those of the state the
\* move was applied to and those of the move's first n scans.
ScansWith(base, evs, n) ==
    base \cup {ScanKey(evs[j].drone, evs[j].creature) : j \in 1..n}

\* Drone d holds, in `scans`, all three types of color col.
HasColor(scans, d, col) ==
    \A t \in {0, 1, 2} :
        \E c \in DOMAIN Roster :
            Roster[c].color = col /\ Roster[c].type = t /\ ScanKey(d, c) \in scans

\* Drone d holds, in `scans`, every color of type t.
HasType(scans, d, t) ==
    \A col \in {0, 1, 2, 3} :
        \E c \in DOMAIN Roster :
            Roster[c].color = col /\ Roster[c].type = t /\ ScanKey(d, c) \in scans

\* Some drone holds, in `scans`, a creature of type t.
TypeScanned(scans, s, t) ==
    \E c \in DOMAIN Roster, d \in DroneIds(s) :
        Roster[c].type = t /\ ScanKey(d, c) \in scans

\* The creatures the last move should have scanned: not yet scanned by the
\* acting drone and, between the drone after its move and the creature after
\* its motion step, at distance <= 800, or <= 2000 with the light on.
ExpectedScans ==
    {c \in DOMAIN Roster :
        /\ ScanKey(state.my_drone.id, c) \notin last.before.scans
        /\ \/ DistSq(state.my_drone, state.creatures[c]) <= 800 * 800
           \/ /\ DistSq(state.my_drone, state.creatures[c]) <= 2000 * 2000
              /\ last.move.light}

\* C4: one applied move adds to the scan set exactly the pairs (acting drone, c)
\* of the creatures c not yet scanned by that drone that lie, after the drone's
\* move and the creature's motion step, within 800, or within 2000 with the
\* light on; a creature at distance 1500 is recorded with the light on only.
C4_ScanRule ==
    (last.applied /\ ~failed) =>
        /\ state.scans \ last.before.scans
              = {ScanKey(state.my_drone.id, c) : c \in ExpectedScans}
        /\ \A c \in DOMAIN Roster :
              DistSq(state.my_drone, state.creatures[c]) = 1500 * 1500
                 /\ ScanKey(state.my_drone.id, c) \notin last.before.scans
              => (ScanKey(state.my_drone.id, c) \in state.scans <=> last.move.light)

C4_Witness ==
    /\ last.applied
    /\ last.move.light
    /\ \E c \in DOMAIN Roster :
          /\ DistSq(state.my_drone, state.creatures[c]) = 1500 * 1500
          /\ ScanKey(state.my_drone.id, c) \in state.scans \ last.before.scans

\* The base points of a creature type, as the claim states them.
BasePoints(t) == IF t = 0 THEN 1 ELSE IF t = 1 THEN 2 ELSE IF t = 2 THEN 3 ELSE 0

\* C5: a newly scanned creature contributes base points 1/2/3 for type 0/1/2
\* (0 otherwise), doubled exactly when no creature of its type was scanned
\* before by either side: neither in the snapshots of earlier turns nor
\* earlier in the branch.
C5_FirstOfTypeDoubling ==
    \A i \in 1..Len(last.events) :
        LET e == last.events[i]
            t == Roster[e.creature].type
            prior == ScansWith(last.before.scans, last.events, i - 1)
        IN  e.creature_score
              = IF TypeScanned(prior, state, t) THEN BasePoints(t) ELSE 2 * BasePoints(t)

\* C6: the scan by which a drone completes a color, no drone having completed a
\* color before, gets 6 for it; the scan by which a drone completes a type, no
\* drone having completed a type before, gets 8 for it.
C6_FirstCompletionDoubled ==
    \A i \in 1..Len(last.events) :
        LET e == last.events[i]
            cr == Roster[e.creature]
            prior == ScansWith(last.before.scans, last.events, i - 1)
            post == ScansWith(last.before.scans, last.events, i)
        IN  /\ (/\ HasColor(post, e.drone, cr.color)
                /\ \A d \in DroneIds(state), col \in {0, 1, 2, 3} : ~HasColor(prior, d, col))
               => e.all_colors_score = 6
            /\ (/\ HasType(post, e.drone, cr.type)
                /\ \A d \in DroneIds(state), t \in {0, 1, 2} : ~HasType(prior, d, t))
               => e.one_of_each_score = 8

\* The scan records at the start of the branch: the state's, less the branch's.
BranchStartScans ==
    state.scans \ {ScanKey(log[j].drone, log[j].creature) : j \in 1..Len(log)}

\* C7: along a branch the all-of-a-color bonus of a drone and a color is added
\* by the scan that completes the color for that drone, and by no other scan.
C7_ColorBonusOnce ==
    \A i \in 1..Len(log) :
        LET e == log[i]
            col == Roster[e.creature].color
            prior == ScansWith(BranchStartScans, log, i - 1)
            post == ScansWith(BranchStartScans, log, i)
        IN  (e.all_colors_score > 0)
              <=> (HasColor(post, e.drone, col) /\ ~HasColor(prior, e.drone, col))

\* C8: a flag is true only if its condition has been met: some drone holds all
\* three types of a color, some drone holds every color of a type, some
\* creature of type t has been scanned.
C8_FlagsOnlyWhenMet ==
    /\ state.was_all_colors_achieved
          => \E d \in DroneIds(state), col \in {0, 1, 2, 3} : HasColor(state.scans, d, col)
    /\ state.was_1_of_each_achieved
          => \E d \in DroneIds(state), t \in {0, 1, 2} : HasType(state.scans, d, t)
    /\ state.was_type_0_achieved => TypeScanned(state.scans, state, 0)
    /\ state.was_type_1_achieved => TypeScanned(state.scans, state, 1)
    /\ state.was_type_2_achieved => TypeScanned(state.scans, state, 2)

\* The five flags of a world state.
Flags(s) ==
    <<s.was_type_0_achieved, s.was_type_1_achieved, s.was_type_2_achieved,
      s.was_1_of_each_achieved, s.was_all_colors_achieved>>

\* The scans of the branch whose base points were doubled, of type t.
TypeDoubled(t) ==
    {j \in 1..Len(log) : log[j].type_doubled /\ Roster[log[j].creature].type = t}

\* The scans of the branch whose all-of-a-color bonus was doubled.
ColorsDoubled == {j \in 1..Len(log) : log[j].colors_doubled}

\* The scans of the branch whose one-of-each bonus was doubled.
EachDoubled == {j \in 1..Len(log) : log[j].each_doubled}

\* C9: no flag goes from true to false, and along a branch each flag's
\* doubling is applied to at most one scan, never to a scan made when the flag
\* was already true.
C9_FlagsOnceOnly ==
    /\ \A k \in 1..5 : Flags(last.before)[k] => Flags(state)[k]
    /\ \A t \in {0, 1, 2} : Cardinality(TypeDoubled(t)) <= 1
    /\ Cardinality(ColorsDoubled) <= 1
    /\ Cardinality(EachDoubled) <= 1
    /\ \A i \in 1..Len(last.events) :
          LET e == last.events[i]
          IN  /\ last.before.was_all_colors_achieved => ~e.colors_doubled
              /\ last.before.was_1_of_each_achieved => ~e.each_doubled
              /\ Roster[e.creature].type = 0 /\ last.before.was_type_0_achieved => ~e.type_doubled
              /\ Roster[e.creature].type = 1 /\ last.before.was_type_1_achieved => ~e.type_doubled
              /\ Roster[e.creature].type = 2 /\ last.before.was_type_2_achieved => ~e.type_doubled

C9_Witness ==
    /\ Len(log) >= 3
    /\ plies >= 2
    /\ last.before.was_all_colors_achieved
    /\ last.events # << >>
    /\ Cardinality(ColorsDoubled) = 1
    /\ Cardinality(TypeDoubled(0) \cup TypeDoubled(1) \cup TypeDoubled(2)) >= 2

\* C10: along a branch the scan set only grows and neither scan counter
\* decreases.
C10_ScansMonotone ==
    [][/\ state.scans \subseteq state'.scans
       /\ state.my_scan_count <= state'.my_scan_count
       /\ state.foe_scan_count <= state'.foe_scan_count]_vars

C10_Witness ==
    /\ plies >= 2
    /\ last.before.scans # {}
    /\ last.events # << >>
    /\ last.before.scans \subseteq state.scans
    /\ state.my_scan_count > last.before.my_scan_count
    /\ Len(log) > Len(last.events)

\* ---------------------------------------------------------------- properties of the search
\* Exhaustive minimax: the maximum (my ply) or minimum (the other ply) over all
\* ten candidates of the value one level down, the evaluation at depth 0; no
\* window, no cut-off.
RECURSIVE Exhaustive(_, _, _)
Exhaustive(s, depth, maximizing_player) ==
    IF depth = 0 THEN evaluate(s)
    ELSE LET moves == get_possible_moves(s)
             Child(i) == Exhaustive(apply_moves(s, moves[i], order).st,
                                    depth - 1, ~maximizing_player)
             RECURSIVE Best(_)
             Best(i) ==
                 IF i = 10 THEN Child(i)
                 ELSE IF maximizing_player THEN VMax(Child(i), Best(i + 1))
                 ELSE VMin(Child(i), Best(i + 1))
         IN  Best(1)

\* C1: a call never changes the state it was called on: the state of every
\* live call is the one the call started with, the state of a callee is the
\* result of applying its move to the caller's state (nothing of a sibling
\* shows in it), and when the search has returned the root state is the one
\* it was given.
C1_NoMutation ==
    /\ \A i \in 1..Len(stack) : heap[stack[i].ref] = stack[i].entry
    /\ \A i \in 2..Len(stack) :
          stack[i].entry = apply_moves(stack[i - 1].entry, stack[i].via, order).st
    /\ Len(stack) >= 1 => stack[1].entry = state
    /\ pc \in {"done", "printed"} => heap = <<state>>

C1_Witness ==
    /\ pc = "run"
    /\ Len(stack) = 3
    /\ stack[2].idx > 1
    /\ stack[3].entry.scans # stack[2].entry.scans
    /\ stack[2].entry.my_drone # state.my_drone

\* C2: minimax started with the initial window returns the value of exhaustive
\* minimax for the same state, depth and side to move.
C2_PruningExact ==
    (pc = "done" /\ call.kind = "minimax") => result = Exhaustive(state, call.depth, call.maximizing_player)

\* The same, for the states whose scores differ by at most 20000 points.
MinimaxExactInsideWindow ==
    (pc = "done" /\ call.kind = "minimax" /\ Abs(state.my_score - state.foe_score) <= 20000)
        => result = Exhaustive(state, call.depth, call.maximizing_player)

\* C3: the plies alternate, and the move applied on a maximizing ply is my
\* drone's while the move applied on a minimizing ply is the opponent drone's:
\* there my drone, my score and my scan counter are unchanged and no scan is
\* recorded under my drone's id.
C3_PliesAlternateSides ==
    \A i \in 2..Len(stack) :
        LET parent == stack[i - 1]
            child == stack[i]
        IN  /\ child.maximizing_player = ~parent.maximizing_player
            /\ parent.maximizing_player =>
                  /\ child.entry.their_drone = parent.entry.their_drone
                  /\ child.entry.foe_score = parent.entry.foe_score
                  /\ child.entry.foe_scan_count = parent.entry.foe_scan_count
            /\ ~parent.maximizing_player =>
                  /\ child.entry.my_drone = parent.entry.my_drone
                  /\ child.entry.my_score = parent.entry.my_score
                  /\ child.entry.my_scan_count = parent.entry.my_scan_count
                  /\ \A c \in DOMAIN Roster :
                        ScanKey(child.entry.my_drone.id, c) \in child.entry.scans
                           => ScanKey(child.entry.my_drone.id, c) \in parent.entry.scans

\* ---------------------------------------------------------------- the battery
\* No search is running, nothing was read and nothing printed.
Idle ==
    /\ call = NoCall
    /\ heap = << >>
    /\ stack = << >>
    /\ pc = "idle"
    /\ result = << >>
    /\ seen = << >>
    /\ snapshot = NoSnapshot
    /\ emitted = NoLine

\* The battery levels read for my drone (an i32 of the input): inside the
\* range [MIN_BATTERY, MAX_BATTERY], at its ends, and outside it on either side.
BatteryStarts == {-7, 0, 3, 30, 33, 41}

\* A branch that starts from a snapshot with one of these battery levels.
InitBattery ==
    /\ \E b \in BatteryStarts :
          state = WorldAfter(<<0, 0>>, [mine |-> << >>, foe |-> << >>],
                             DroneAt(0, 5000, 5000, b))
    /\ order = Ascending
    /\ plies = 0
    /\ last = NoApplication(state)
    /\ log = << >>
    /\ failed = FALSE
    /\ Idle

BatterySpec == InitBattery /\ [][Next]_vars

\* C11: after every applied move the battery of the acting drone is within
\* [MIN_BATTERY, MAX_BATTERY], whatever the battery level the branch started
\* with.
C11_BatteryInRange ==
    last.applied =>
        /\ state.my_drone.battery >= MIN_BATTERY
        /\ state.my_drone.battery <= MAX_BATTERY

\* The same, for the branches whose starting level is within the range.
BatteryStaysInRange ==
    (last.applied /\ last.before.my_drone.battery \in MIN_BATTERY..MAX_BATTERY) =>
        state.my_drone.battery \in MIN_BATTERY..MAX_BATTERY

\* ---------------------------------------------------------------- the candidates
\* The positions my drone is read at: the four corners of the arena, a point
\* next to two edges, and the middle.
DronePositions ==
    {<<0, 0>>, <<10000, 10000>>, <<0, 10000>>, <<10000, 0>>, <<300, 9800>>, <<5000, 5000>>}

\* A branch that starts with my drone at one of these positions.
InitGen ==
    /\ \E p \in DronePositions :
          state = WorldAfter(<<0, 0>>, [mine |-> << >>, foe |-> << >>],
                             DroneAt(0, p[1], p[2], 30))
    /\ order = Ascending
    /\ plies = 0
    /\ last = NoApplication(state)
    /\ log = << >>
    /\ failed = FALSE
    /\ Idle

GenSpec == InitGen /\ [][Next]_vars

\* The target of a move by (dx, dy) from (x, y), kept inside the arena.
InsideTarget(v, dv) ==
    IF v + dv < 0 THEN 0 ELSE IF v + dv > 10000 THEN 10000 ELSE v + dv

\* C12: for every position of my drone the generator returns exactly ten
\* candidates in a fixed order: for each of the offsets (+600,+600),
\* (-600,-600), (+600,-600), (-600,+600) a move with light on and then one with
\* light off, then a wait with light on and a wait with light off; every target
\* coordinate lies in [0,10000]; and the move a branch applies is one of them.
C12_TenCandidates ==
    LET moves == get_possible_moves(state)
        x == state.my_drone.x
        y == state.my_drone.y
        offsets == << <<600, 600>>, <<-600, -600>>, <<600, -600>>, <<-600, 600>> >>
    IN  /\ Len(moves) = 10
        /\ \A k \in 1..4 :
              /\ moves[2 * k - 1] =
                    [should_move |-> TRUE, has_target |-> TRUE,
                     x |-> InsideTarget(x, offsets[k][1]),
                     y |-> InsideTarget(y, offsets[k][2]), light |-> TRUE]
              /\ moves[2 * k] = [moves[2 * k - 1] EXCEPT !.light = FALSE]
        /\ moves[9] = [should_move |-> FALSE, has_target |-> FALSE,
                       x |-> 0, y |-> 0, light |-> TRUE]
        /\ moves[10] = [moves[9] EXCEPT !.light = FALSE]
        /\ \A i \in 1..8 : moves[i].x \in 0..10000 /\ moves[i].y \in 0..10000
        /\ last.applied =>
              /\ \E i \in 1..10 : last.move = get_possible_moves(last.before)[i]
              /\ last.move.has_target =>
                    last.move.x \in 0..10000 /\ last.move.y \in 0..10000

\* A move was applied at a corner of the arena, and again below the arena's
\* lower edge, where an offset leaves the arena on either axis.
C12_Witness ==
    /\ plies = 3
    /\ last.applied
    /\ last.before.my_drone.x = 10000
    /\ last.before.my_drone.y > 10000
    /\ last.move.has_target
    /\ last.move.x = 10000
    /\ last.move.y = 10000

\* ---------------------------------------------------------------- properties of find_best_move
\* find_best_move has returned.
Returned == pc \in {"done", "printed"} /\ call.kind = "find_best_move"

\* C13: find_best_move returns a candidate whose search score is the maximum
\* over all ten candidates, and among the candidates of maximum score the
\* first one in the shuffled order, for each permutation of the candidates.
C13_FirstMaximum ==
    Returned =>
        /\ Len(seen) = 10
        /\ result.some
        /\ \E i \in 1..10 :
              /\ seen[i].move = result.move
              /\ \A j \in 1..10 : VLeq(seen[j].score, seen[i].score)
              /\ \A j \in 1..(i - 1) : VLt(seen[j].score, seen[i].score)

\* The same, for the runs in which some candidate scores above
\* i32::min_value() as f64.
FirstMaximumAboveBound ==
    (Returned /\ \E j \in 1..Len(seen) : VLt(I32_MIN_F, seen[j].score)) =>
        /\ Len(seen) = 10
        /\ result.some
        /\ \E i \in 1..10 :
              /\ seen[i].move = result.move
              /\ \A j \in 1..10 : VLeq(seen[j].score, seen[i].score)
              /\ \A j \in 1..(i - 1) : VLt(seen[j].score, seen[i].score)

\* C14: below a root candidate the search runs at depth 3 with the minimizing
\* side first: the plies below the root are min, max, min, and the score the
\* root compares for a candidate is a minimizing call's.
C14_MinimizingFirst ==
    call.kind = "find_best_move" =>
        \A i \in 2..Len(stack) :
            /\ stack[i].depth = SEARCH_DEPTH - (i - 2)
            /\ stack[i].maximizing_player = (i % 2 = 1)

\* The plies the code runs below a root candidate: depth 3 with the maximizing
\* side first.
MaximizingFirst ==
    call.kind = "find_best_move" =>
        \A i \in 2..Len(stack) :
            /\ stack[i].depth = SEARCH_DEPTH - (i - 2)
            /\ stack[i].maximizing_player = (i % 2 = 0)

\* C15: the candidate list is never empty, so find_best_move returns one of
\* the candidates whatever their scores, and main prints "WAIT 0" only when
\* find_best_move returned no action.
C15_NoActionOnlyWhenEmpty ==
    /\ Returned =>
          /\ result.some
          /\ \E i \in 1..10 : result.move = get_possible_moves(state)[i]
    /\ (pc = "printed" /\ emitted.cmd = "WAIT" /\ emitted.light = "0") => ~result.some

\* What the code does: no action is returned exactly when no candidate scores
\* above i32::min_value() as f64.
NoActionWhenAllAtBound ==
    Returned => (result.some <=> \E j \in 1..Len(seen) : VLt(I32_MIN_F, seen[j].score))

\* "WAIT 0" is printed for no action and for a wait with light off.
WaitZeroLine ==
    pc = "printed" =>
        ((emitted.cmd = "WAIT" /\ emitted.light = "0")
            <=> (~result.some \/ (~result.move.should_move /\ ~result.move.light)))

\* ---------------------------------------------------------------- creatures never seen
\* The sets of creatures the snapshots list as visible; a creature outside the
\* set has position and velocity None.
VisibleSets == {{1, 2, 3, 4, 6, 7}, {1, 2, 3}, {}}

\* A turn snapshot that lists the creatures `ids` as visible.
SnapshotSeeing(scores, lists, drone, ids) ==
    [Snapshot(scores, lists, drone) EXCEPT !.visible = [c \in ids |-> Visible[c]]]

\* The world state after GameState::new and two snapshots that both list `ids`.
WorldSeeing(lists, drone, ids) ==
    update_state(update_state(new_state(Roster),
                              SnapshotSeeing(<<0, 0>>, [mine |-> << >>, foe |-> << >>], drone, ids)),
                 SnapshotSeeing(<<0, 0>>, lists, drone, ids))

\* The scan lists of these snapshots: those of ScanLists, and one in which
\* both sides hold creature 5, which no snapshot lists as visible.
UnknownScanLists == ScanLists \cup {[mine |-> <<5>>, foe |-> <<5>>]}

InitUnknown ==
    /\ \E lists \in UnknownScanLists, drone \in MyDroneStarts, ids \in VisibleSets :
          state = WorldSeeing(lists, drone, ids)
    /\ order = Ascending
    /\ plies = 0
    /\ last = NoApplication(state)
    /\ log = << >>
    /\ failed = FALSE
    /\ Idle

\* minimax at depth 0 on the branch's state: self.evaluate(None), which panics
\* on the unwrap of an unknown position.
EvaluateState ==
    /\ pc = "idle"
    /\ ~failed
    /\ failed' = EvaluatePanics(state)
    /\ result' = IF EvaluatePanics(state) THEN result ELSE evaluate(state)
    /\ pc' = "evaluated"
    /\ UNCHANGED <<state, order, plies, last, log, call, heap, stack, seen, iovars>>

NextUnknown == (\E i \in 1..10 : ApplyMove(i)) \/ EvaluateState

UnknownSpec == InitUnknown /\ [][NextUnknown]_vars

\* C16: applying a move to, or evaluating, a world state that holds a creature
\* of unknown position and velocity completes without failure; that creature
\* is not advanced and is not recorded as scanned by the move.
C16_UnknownTolerated ==
    /\ ~failed
    /\ last.applied =>
          \A c \in CreatureIds(state) :
              ~last.before.creatures[c].known =>
                  /\ state.creatures[c] = last.before.creatures[c]
                  /\ ScanKey(state.my_drone.id, c) \in state.scans
                        => ScanKey(state.my_drone.id, c) \in last.before.scans

\* What the code does: every move applied to such a state panics, and the
\* evaluation panics unless both drones hold every creature of unknown position.
UnknownPanics ==
    /\ last.applied => failed
    /\ (pc = "evaluated" /\ ~last.applied) =>
          (failed <=> \E c \in CreatureIds(state) :
                          /\ ~state.creatures[c].known
                          /\ {ScanKey(0, c), ScanKey(1, c)} \ state.scans # {})

\* ---------------------------------------------------------------- the turns
\* The number of turn snapshots read.
MaxTurns == 3

\* The creatures `ids` as a snapshot reports them, dx further along x than in
\* Visible.
VisibleAt(ids, dx) == [c \in ids |-> [Visible[c] EXCEPT !.x = @ + dx]]

\* The turn snapshots read: all creatures visible, some, or none, at one of two
\* places; no scans or two scans of mine; my drone at either start.
TurnSnapshots ==
    { [Snapshot(<<0, 0>>, lists, drone) EXCEPT !.visible = VisibleAt(ids, dx)] :
          lists \in SearchScanLists, drone \in MyDroneStarts,
          ids \in {1..7, {1, 2, 3}, {}}, dx \in {0, 50} }

\* main before the loop: GameState::new has read the roster.
InitTurns ==
    /\ state = new_state(Roster)
    /\ order = Ascending
    /\ plies = 0
    /\ last = NoApplication(state)
    /\ log = << >>
    /\ failed = FALSE
    /\ Idle

\* main, game_state.update_state(): one turn snapshot is read and absorbed, or
\* the call panics.
ReadSnapshot(snap) ==
    /\ pc = "idle"
    /\ ~failed
    /\ snapshot.turn < MaxTurns
    /\ failed' = UpdatePanics(state, snap)
    /\ state' = IF UpdatePanics(state, snap) THEN state ELSE update_state(state, snap)
    /\ snapshot' = [read |-> TRUE, turn |-> snapshot.turn + 1, input |-> snap]
    /\ UNCHANGED <<order, plies, last, log, searchvars, emitted>>

NextTurn == \E snap \in TurnSnapshots : ReadSnapshot(snap)

TurnSpec == InitTurns /\ [][NextTurn]_vars

\* C17: after a snapshot is absorbed, every creature it lists as visible has
\* the reported position and velocity, every creature it does not list has
\* position and velocity unknown (a position seen on an earlier turn is not
\* kept), and id, color and type of every creature are those of the roster.
C17_RefreshedOrCleared ==
    (snapshot.read /\ ~failed) =>
        \A c \in DOMAIN Roster :
            LET creature == state.creatures[c]
                visible == snapshot.input.visible
            IN  /\ c \in DOMAIN visible =>
                      /\ creature.known
                      /\ creature.x = visible[c].x /\ creature.y = visible[c].y
                      /\ creature.vx = visible[c].vx /\ creature.vy = visible[c].vy
                /\ c \notin DOMAIN visible => ~creature.known
                /\ creature.id = c
                /\ creature.color = Roster[c].color
                /\ creature.type = Roster[c].type

\* What the code does: the listed creatures are refreshed, the roster fields
\* are kept, and a creature that is not listed keeps what it had.
ListedRefreshed ==
    (snapshot.read /\ ~failed) =>
        \A c \in DOMAIN Roster :
            LET creature == state.creatures[c]
                visible == snapshot.input.visible
            IN  /\ c \in DOMAIN visible =>
                      /\ creature.known
                      /\ creature.x = visible[c].x /\ creature.y = visible[c].y
                      /\ creature.vx = visible[c].vx /\ creature.vy = visible[c].vy
                /\ creature.id = c
                /\ creature.color = Roster[c].color
                /\ creature.type = Roster[c].type

UnlistedKept ==
    [][(snapshot' # snapshot /\ ~failed') =>
          \A c \in DOMAIN Roster \ DOMAIN snapshot'.input.visible :
              state'.creatures[c] = state.creatures[c]]_vars

\* ---------------------------------------------------------------- properties of the credit
\* The sum of the score deltas of a move's scans.
RECURSIVE SumScores(_)
SumScores(evs) == IF evs = << >> THEN 0 ELSE Head(evs).score + SumScores(Tail(evs))

\* C18: a move that newly scans k creatures (k pairs added to the scan set)
\* raises the scan counter of the acting drone's side by exactly k and its
\* score by the sum of the k per-creature deltas, the side being the one of the
\* drone's ownership flag; the other side's score and counter are unchanged,
\* and a move that scans nothing changes no score and no counter.
C18_CreditPerScan ==
    (last.applied /\ ~failed) =>
        LET k == Cardinality(state.scans \ last.before.scans)
            total == SumScores(last.events)
            before == last.before
        IN  /\ Len(last.events) = k
            /\ \A j \in 1..k :
                  /\ last.events[j].mine = before.my_drone.is_mine
                  /\ last.events[j].score =
                        last.events[j].creature_score + last.events[j].all_colors_score
                        + last.events[j].one_of_each_score
            /\ IF before.my_drone.is_mine
               THEN /\ state.my_scan_count = before.my_scan_count + k
                    /\ state.my_score = before.my_score + total
                    /\ state.foe_scan_count = before.foe_scan_count
                    /\ state.foe_score = before.foe_score
               ELSE /\ state.foe_scan_count = before.foe_scan_count + k
                    /\ state.foe_score = before.foe_score + total
                    /\ state.my_scan_count = before.my_scan_count
                    /\ state.my_score = before.my_score
            /\ k = 0 =>
                  /\ state.my_score = before.my_score
                  /\ state.foe_score = before.foe_score
                  /\ state.my_scan_count = before.my_scan_count
                  /\ state.foe_scan_count = before.foe_scan_count

\* One move scanned three creatures or more, on a state whose scan counter was
\* already positive, and my score rose with my counter.
C18_Witness ==
    /\ last.applied
    /\ ~failed
    /\ Len(last.events) >= 3
    /\ last.before.my_scan_count > 0
    /\ state.my_scan_count = last.before.my_scan_count + Len(last.events)
    /\ state.my_score > last.before.my_score + 3

\* ---------------------------------------------------------------- the evaluation of two states
\* The scores and the scan lists of the states compared: differentials of 0,
\* 1, 3 and 6 points; nothing scanned, everything scanned by me and nothing by
\* the opponent, and the reverse.
EvalScores == {<<0, 0>>, <<1, 0>>, <<0, 1>>, <<3, 0>>, <<6, 0>>}

EvalLists ==
    { [mine |-> << >>, foe |-> << >>],
      [mine |-> <<1, 2, 3, 4, 5, 6, 7>>, foe |-> << >>],
      [mine |-> << >>, foe |-> <<1, 2, 3, 4, 5, 6, 7>>] }

EvalWorlds ==
    { WorldAfter(scores, lists, drone) :
          scores \in EvalScores, lists \in EvalLists, drone \in MyDroneStarts }

\* Two world states, each to be given to evaluate.
InitEval ==
    /\ state \in EvalWorlds
    /\ \E other \in EvalWorlds : heap = <<state, other>>
    /\ order = Ascending
    /\ plies = 0
    /\ last = NoApplication(state)
    /\ log = << >>
    /\ failed = FALSE
    /\ call = NoCall
    /\ stack = << >>
    /\ pc = "compare"
    /\ result = << >>
    /\ seen = << >>
    /\ snapshot = NoSnapshot
    /\ emitted = NoLine

\* self.evaluate(None) on the next of the two states.
EvaluateNext ==
    /\ pc = "compare"
    /\ Len(result) < Len(heap)
    /\ result' = Append(result, evaluate(heap[Len(result) + 1]))
    /\ UNCHANGED <<simvars, call, heap, stack, pc, seen, iovars>>

EvalSpec == InitEval /\ [][EvaluateNext]_vars

\* my_score - foe_score of a world state.
Differential(s) == s.my_score - s.foe_score

\* C19: of two world states with all drones and creatures inside the arena,
\* the one with the larger score differential evaluates strictly higher,
\* whatever the scan sets and the distances.
C19_DifferentialDominates ==
    Len(result) = 2 =>
        /\ Differential(heap[1]) > Differential(heap[2]) => VLt(result[2], result[1])
        /\ Differential(heap[2]) > Differential(heap[1]) => VLt(result[1], result[2])

\* The same, for differentials that are 6 points or more apart.
DominatesBySixPoints ==
    Len(result) = 2 =>
        /\ Differential(heap[1]) >= Differential(heap[2]) + 6 => VLt(result[2], result[1])
        /\ Differential(heap[2]) >= Differential(heap[1]) + 6 => VLt(result[1], result[2])

\* ---------------------------------------------------------------- properties of the processing order
\* C20: the result of one applied move (scores, flags, scan set, and the rest
\* of the successor state) does not depend on the order in which the newly
\* scanned creatures are processed: every iteration order of the creatures map
\* gives the successor state the branch reached.
C20_OrderIndependent ==
    (last.applied /\ ~failed) =>
        \A o \in IterationOrders :
            apply_moves(last.before, last.move, o).st = state

\* What does not depend on the order: the scan set, the scan counters, the
\* drones, the creatures, and the first-of-type flags.
OrderIndependentPart ==
    (last.applied /\ ~failed) =>
        \A o \in IterationOrders :
            LET other == apply_moves(last.before, last.move, o).st
            IN  /\ other.scans = state.scans
                /\ other.my_scan_count = state.my_scan_count
                /\ other.foe_scan_count = state.foe_scan_count
                /\ other.foe_score = state.foe_score
                /\ other.my_drone = state.my_drone
                /\ other.their_drone = state.their_drone
                /\ other.creatures = state.creatures
                /\ other.was_type_0_achieved = state.was_type_0_achieved
                /\ other.was_type_1_achieved = state.was_type_1_achieved
                /\ other.was_type_2_achieved = state.was_type_2_achieved
                /\ other.was_all_colors_achieved = state.was_all_colors_achieved
                /\ other.was_1_of_each_achieved = state.was_1_of_each_achieved

\* ---------------------------------------------------------------- properties of the drone's position
\* Position (x, y) of a drone lies inside the arena.
InArena(drone) == drone.x \in 0..10000 /\ drone.y \in 0..10000

\* The move's target lies at the move speed or further from the drone.
TargetAtSpeed(drone, m) == DistSq(drone, m) >= 600 * 600

\* The original statement of C21: after any sequence of simulated moves from a
\* position inside the arena, my drone is still inside the arena.
C21_StaysInArena == InArena(state.my_drone)

\* C21 (amended): from a position inside the arena, a move toward a clamped
\* target that lies 600 or further away ends inside the arena; a move toward a
\* nearer target changes each coordinate by at most 600 in the target's
\* direction and may pass the target, and a wait adds exactly 300 to y and
\* leaves x alone, so either may end outside.
C21_InArenaUnlessOvershootOrWait ==
    last.applied =>
        LET before == last.before.my_drone
            after == state.my_drone
            m == last.move
        IN  /\ (InArena(before) /\ m.should_move /\ TargetAtSpeed(before, m))
                  => InArena(after)
            /\ m.should_move =>
                  /\ Abs(after.x - before.x) <= 600
                  /\ Abs(after.y - before.y) <= 600
                  /\ (after.x - before.x) * (m.x - before.x) >= 0
                  /\ (after.y - before.y) * (m.y - before.y) >= 0
            /\ ~m.should_move =>
                  /\ after.x = before.x
                  /\ after.y = before.y + 300

\* A move from the arena's edge toward a target that the clamp moved, 600 or
\* further away, ended on the edge, after an earlier move of the branch.
C21_Witness ==
    /\ last.applied
    /\ plies >= 2
    /\ last.move.should_move
    /\ InArena(last.before.my_drone)
    /\ TargetAtSpeed(last.before.my_drone, last.move)
    /\ last.before.my_drone.x + 600 > 10000
    /\ last.move.x = 10000
    /\ state.my_drone.x = 10000
    /\ state.my_drone.y # last.before.my_drone.y

\* A move toward a target nearer than 600 passed it and left the arena.
OvershootLeavesArena ==
    /\ last.applied
    /\ last.move.should_move
    /\ InArena(last.before.my_drone)
    /\ ~TargetAtSpeed(last.before.my_drone, last.move)
    /\ ~InArena(state.my_drone)

\* ---------------------------------------------------------------- properties of the battery level
\* World state s with my drone's battery at level b.
WithBattery(s, b) == [s EXCEPT !.my_drone.battery = b]

\* C22: neither the candidates nor the scans depend on the battery level: at
\* every level, 0 included, five of the ten candidates have the light on and
\* the candidates are those of a full battery; a move with light on scans
\* exactly the unscanned creatures within 2000 of the moved drone and leaves
\* the battery at max(0, battery - 5); and the successor state of any move is,
\* but for the battery, the one a full battery gives.
C22_BatteryIgnored ==
    /\ LET moves == get_possible_moves(state)
       IN  /\ Cardinality({i \in 1..10 : moves[i].light}) = 5
           /\ \A i \in {1, 3, 5, 7, 9} : moves[i].light
           /\ moves = get_possible_moves(WithBattery(state, 30))
    /\ (last.applied /\ ~failed) =>
          LET before == last.before
              d == state.my_drone
              full == apply_moves(WithBattery(before, 30), last.move, order).st
          IN  /\ WithBattery(full, d.battery) = state
              /\ last.move.light =>
                    /\ d.battery = IF before.my_drone.battery - 5 < 0 THEN 0
                                   ELSE before.my_drone.battery - 5
                    /\ state.scans \ before.scans =
                          { ScanKey(d.id, c) : c \in
                              { c \in DOMAIN Roster :
                                  /\ ScanKey(d.id, c) \notin before.scans
                                  /\ (d.x - state.creatures[c].x) * (d.x - state.creatures[c].x)
                                     + (d.y - state.creatures[c].y) * (d.y - state.creatures[c].y)
                                        <= 2000 * 2000 } }

\* A move with light on was applied at battery level 0, it scanned a creature
\* that lies further than 800 from the moved drone, and the battery is still 0.
C22_Witness ==
    /\ last.applied
    /\ ~failed
    /\ last.move.light
    /\ last.before.my_drone.battery = 0
    /\ state.my_drone.battery = 0
    /\ \E j \in 1..Len(last.events) :
          ~is_near_creature(state.my_drone, state.creatures[last.events[j].creature])

=============================================================================
